---- MODULE Spec2Model ----
(***************************************************************************)
(* A model of the leviq queue (queue.go) and of its goleveldb backend      *)
(* (backend/goleveldb/goleveldb.go).                                       *)
(*                                                                         *)
(* Spec       the Queue: init, putKey, awaitKey, awaitKeys, take, Clear,   *)
(*            run by concurrent goroutines over one levigo store.          *)
(* FairSpec   Spec with the scheduler's fairness for the Clear goroutine.  *)
(* InitFairSpec  Spec with the scheduler's fairness for init's goroutine.  *)
(* BucketSpec the goleveldb Bucket: ForEach, Batch, Get, Clear.            *)
(* RaceSpec   goroutines that build keys on one Bucket at the same time.   *)
(***************************************************************************)
EXTENDS Integers, Sequences, FiniteSets, TLC

(***************************************************************************)
(* Bounds.                                                                 *)
(***************************************************************************)
\* Bytes are 0 .. ByteBase-1 (256 in the program).
ByteBase == 3
\* The largest id a Put may allocate.
MaxId == 3
\* The largest id persisted before the queue is opened.
MaxInitId == 2
\* The number of calls (Put, Take, awaitKey, Clear) made on the queue.
MaxCalls == 2
\* The largest n passed to Take.
MaxN == 2

\* The number of operations a Batch function stages.
MaxBatch == 2

\* queue.go:12 sets the capacity of the availability channel to 1e6; the
\* model keeps the constant and scales its value.
MaxQueue == 2

(***************************************************************************)
(* Byte strings: sequences of bytes, ordered as bytes.Compare orders them. *)
(***************************************************************************)
IsPrefix(p, s) == Len(p) <= Len(s) /\ SubSeq(s, 1, Len(p)) = p

RECURSIVE BytesLess(_, _)
BytesLess(a, b) ==
  IF b = <<>> THEN FALSE
  ELSE IF a = <<>> THEN TRUE
  ELSE IF Head(a) # Head(b) THEN Head(a) < Head(b)
  ELSE BytesLess(Tail(a), Tail(b))

\* The keys of a set in ascending byte order: the order an iterator of the
\* store walks them in.
RECURSIVE SortedKeys(_)
SortedKeys(S) ==
  IF S = {} THEN <<>>
  ELSE LET m == CHOOSE x \in S : \A y \in S \ {x} : BytesLess(x, y)
       IN <<m>> \o SortedKeys(S \ {m})

(***************************************************************************)
(* The id/key codec of package internal: a fixed-width big-endian key.     *)
(***************************************************************************)
IdWidth == 2

NoKey == <<-1>>
BadID == -1

\* ID.Key(): the id as IdWidth bytes, most significant first.
IDToKey(id) == << (id \div ByteBase) % ByteBase, id % ByteBase >>

\* KeyToID: BadID (a decode error) unless the key is IdWidth bytes wide.
KeyToID(k) ==
  IF Len(k) = IdWidth THEN k[1] * ByteBase + k[2] ELSE BadID

\* joinKey(ns, k): the store key.
joinKey(ns, k) == ns \o k

\* splitKey(ns, key): the key without its namespace, NoKey (nil) when the
\* key is not in the namespace.
splitKey(ns, key) ==
  IF IsPrefix(ns, key) THEN SubSeq(key, Len(ns) + 1, Len(key)) ELSE NoKey

(***************************************************************************)
(* internal.IDHeap: a min-heap of ids, kept as an ascending sequence.      *)
(***************************************************************************)
RECURSIVE PushID(_, _)
PushID(h, id) ==
  IF h = <<>> THEN <<id>>
  ELSE IF id <= Head(h) THEN <<id>> \o h
  ELSE <<Head(h)>> \o PushID(Tail(h), id)

\* PopID removes and returns the least id.
PopID(h) == [id |-> Head(h), rest |-> Tail(h)]


(***************************************************************************)
(* The Queue of queue.go over one levigo store.                            *)
(***************************************************************************)
Producers == {"p1"}
Consumers == {"c1", "c2"}
Procs == Producers \cup Consumers

\* q.ns: the namespace of the queue.
QNs == <<1>>

Payloads == {"x"}
\* Put writes one item, PutBatch two.
PutSizes == {1, 2}
Timeouts == {"0", "T", "forever"}

VARIABLES
  db,       \* the store: a function from keys to values
  ids,      \* q.ids, the heap
  c,        \* q.c, the number of signals buffered in the channel
  mutex,    \* q.mutex: its holder, or "none"
  crashed,  \* a goroutine panicked: the process is gone
  ipc,      \* init: where it is
  it,       \* init: the keys its iterator has still to visit
  clpc,     \* Clear: where it is
  cit,      \* Clear: the keys its iterator has still to visit
  cb,       \* Clear: the keys its write batch deletes
  pc,       \* each goroutine: where it is
  n,        \* each goroutine: take's n
  t,        \* each goroutine: take's timeout
  cancel,   \* each goroutine: awaitKeys' cancel channel is closed
  b,        \* each goroutine: the keys awaitKeys has collected
  pending,  \* each goroutine: putKey's ids still to push
  op,       \* each goroutine: the call it runs
  ret,      \* each goroutine: what its call returned
  nextId,   \* the id the next Put allocates
  calls,    \* the number of calls made on the queue so far
  solo      \* history: the call that started with every other goroutine idle

qvars == <<db, ids, c, mutex, crashed, ipc, it, clpc, cit, cb, pc, n, t,
           cancel, b, pending, op, ret, nextId, calls, solo>>

VARIABLES
  ldb,      \* the goleveldb store: a function from keys to values
  bpc,      \* the Bucket call in progress
  bns,      \* its Bucket's namespace
  bit,      \* the keys its iterator has still to visit
  bvis,     \* ForEach: the keys passed to fn so far
  bbatch,   \* the operations staged in its leveldb.Batch
  bret,     \* what the call returned
  ldb0,     \* history: the store when the call was made
  writer,   \* history: the namespace of the Bucket that put each key
  bcalls    \* history: the calls fn made on the Batch it was given

VARIABLES
  nscap,    \* the capacity of the array behind the Bucket's ns slice
  nsarr,    \* that array: the namespace, then the spare bytes
  kpc,      \* each caller: where its Get, Put or Delete is
  kop,      \* each caller: the call it makes, with its key and value
  kpos,     \* each caller: the byte of its key append copies next
  kslice,   \* each caller: kk, the slice append returned
  kused,    \* each caller: the key its call handed to leveldb
  kret      \* each caller: what its Get returned

kvars == <<nscap, nsarr, kpc, kop, kpos, kslice, kused, kret>>

bvars == <<ldb, bpc, bns, bit, bvis, bbatch, bret, ldb0, writer, bcalls, kvars>>

vars == <<qvars, bvars>>

\* The goroutines that call one Bucket at the same time.
Callers == {"g1", "g2"}

NoOp == [op |-> "none", key |-> <<>>, val |-> "nil"]
NoSlice == [shared |-> FALSE, key |-> <<>>]

\* The callers' variables while no concurrent call is modelled.
KeyOff ==
  /\ nscap = 0
  /\ nsarr = <<>>
  /\ kpc = [g \in Callers |-> "off"]
  /\ kop = [g \in Callers |-> NoOp]
  /\ kpos = [g \in Callers |-> 0]
  /\ kslice = [g \in Callers |-> NoSlice]
  /\ kused = [g \in Callers |-> <<>>]
  /\ kret = [g \in Callers |-> "nil"]

\* The Bucket's variables while the Queue is modelled.
BucketOff ==
  /\ ldb = <<>>
  /\ bpc = "off"
  /\ bns = <<>>
  /\ bit = <<>>
  /\ bvis = <<>>
  /\ bbatch = <<>>
  /\ bret = [op |-> "none", err |-> FALSE, val |-> "nil"]
  /\ ldb0 = <<>>
  /\ writer = <<>>
  /\ bcalls = <<>>
  /\ KeyOff

NoRet == [ids |-> <<>>, keys |-> <<>>, values |-> <<>>, err |-> FALSE]
NoSolo == [g |-> "none", h |-> <<>>, c |-> 0, first |-> FALSE]

\* The keys of namespace ns in a set of keys.
InNs(ns, K) == {k \in K : IsPrefix(ns, k)}

\* levigo's Get: the value, nil for a key the store does not hold.
Get(store, k) == IF k \in DOMAIN store THEN store[k] ELSE "nil"

\* it.Seek(ns) on a new iterator: the keys from ns on, in order.
Seek(store, ns) == SortedKeys({k \in DOMAIN store : ~BytesLess(k, ns)})

\* The store without the keys of D.
Without(store, D) == [k \in DOMAIN store \ D |-> store[k]]

\* The store with key k set to v.
With(store, k, v) == [x \in DOMAIN store \cup {k} |-> IF x = k THEN v ELSE store[x]]

RECURSIVE MapSeq(_, _)
MapSeq(F(_), s) == IF s = <<>> THEN <<>> ELSE <<F(Head(s))>> \o MapSeq(F, Tail(s))

Range(s) == {s[i] : i \in 1..Len(s)}

(***************************************************************************)
(* The stores a queue is opened on: ids persisted by an earlier run, keys  *)
(* of other namespaces before and after the queue's, and a key of the      *)
(* namespace that is no id.                                                *)
(***************************************************************************)
KeyBefore == <<0, 0, 1>>
KeyAfter == <<2, 0, 0>>
KeyCorrupt == <<1, 1>>
InitExtras == {{KeyBefore, KeyAfter}, {KeyBefore, KeyAfter, KeyCorrupt}}

\* The ids persisted by an earlier run: the first k, for every k.
InitIdSets == {0..(k - 1) : k \in 0..(MaxInitId + 1)}

StoreOf(S, X) ==
  [k \in {joinKey(QNs, IDToKey(i)) : i \in S} \cup X |->
     IF k \in X THEN "f" ELSE "x"]

\* The counter of ids is seeded with the id after the highest one persisted.
NextFree(store) ==
  LET D == {KeyToID(splitKey(QNs, k)) : k \in InNs(QNs, DOMAIN store)} \ {BadID}
  IN IF D = {} THEN 0 ELSE 1 + CHOOSE m \in D : \A x \in D : x <= m

\* The loops of init and Clear end when the iterator is no longer valid or
\* its key is not in the namespace.
PastEnd(itr) == IF itr = <<>> THEN TRUE ELSE splitKey(QNs, Head(itr)) = NoKey

Init ==
  /\ \E S \in InitIdSets : \E X \in InitExtras : db = StoreOf(S, X)
  /\ ids = <<>>
  /\ c = 0
  /\ mutex = "none"
  /\ crashed = FALSE
  /\ ipc = "start"
  /\ it = <<>>
  /\ clpc = "idle"
  /\ cit = <<>>
  /\ cb = {}
  /\ pc = [g \in Procs |-> "idle"]
  /\ n = [g \in Procs |-> 0]
  /\ t = [g \in Procs |-> "0"]
  /\ cancel = [g \in Procs |-> FALSE]
  /\ b = [g \in Procs |-> <<>>]
  /\ pending = [g \in Procs |-> <<>>]
  /\ op = [g \in Procs |-> "none"]
  /\ ret = [g \in Procs |-> NoRet]
  /\ nextId = NextFree(db)
  /\ calls = 0
  /\ solo = NoSolo
  /\ BucketOff

(***************************************************************************)
(* init (queue.go:26-57)                                                   *)
(***************************************************************************)
\* An init that starts at the first key of the store.
InitSeekToFirst ==
  /\ ipc = "start"
  /\ it' = SortedKeys(DOMAIN db)
  /\ ipc' = "loop"
  /\ UNCHANGED bvars
  /\ UNCHANGED <<db, ids, c, mutex, crashed, clpc, cit, cb, pc, n, t, cancel,
                 b, pending, op, ret, nextId, calls, solo>>

\* Lines 27-38: the iterator is created and placed on the namespace.
InitSeek ==
  /\ ipc = "start"
  /\ it' = Seek(db, QNs)
  /\ ipc' = "loop"
  /\ UNCHANGED bvars
  /\ UNCHANGED <<db, ids, c, mutex, crashed, clpc, cit, cb, pc, n, t, cancel,
                 b, pending, op, ret, nextId, calls, solo>>

\* Lines 41-51: the loop's test, the key's decoding and the push.
InitLoop ==
  /\ ipc = "loop"
  /\ IF PastEnd(it)
       THEN ipc' = "done" /\ ids' = ids
       ELSE IF KeyToID(splitKey(QNs, Head(it))) = BadID
         THEN ipc' = "err" /\ ids' = ids
         ELSE ipc' = "send" /\ ids' = PushID(ids, KeyToID(splitKey(QNs, Head(it))))
  /\ UNCHANGED bvars
  /\ UNCHANGED <<db, c, mutex, crashed, it, clpc, cit, cb, pc, n, t, cancel,
                 b, pending, op, ret, nextId, calls, solo>>

\* Lines 52-53: the signal, which waits for room in the channel, and Next.
InitSend ==
  /\ ipc = "send"
  /\ c < MaxQueue
  /\ c' = c + 1
  /\ it' = Tail(it)
  /\ ipc' = "loop"
  /\ UNCHANGED bvars
  /\ UNCHANGED <<db, ids, mutex, crashed, clpc, cit, cb, pc, n, t, cancel,
                 b, pending, op, ret, nextId, calls, solo>>

\* The queue is handed out once init has returned nil. Clear is called
\* with no other call in progress, and no call is made until it returns.
Open == ipc = "done" /\ ~crashed /\ clpc = "idle" /\ calls < MaxCalls

Quiet(g) == \A h \in Procs \ {g} : pc[h] = "idle"

\* History: a call that starts while every other goroutine is idle and no
\* Clear runs is recorded with the heap and the channel it found.
SoloAt(g) ==
  IF Quiet(g)
    THEN [g |-> g, h |-> ids, c |-> c, first |-> calls = 0]
    ELSE NoSolo

(***************************************************************************)
(* Put: the ids are allocated and the items written, then putKey is called *)
(* with the ids.  The allocation and the write are the transaction's.      *)
(***************************************************************************)
Put(g, k, v) ==
  /\ Open
  /\ g \in Producers
  /\ pc[g] = "idle"
  /\ nextId + k - 1 <= MaxId
  /\ db' = [x \in DOMAIN db \cup {joinKey(QNs, IDToKey(i)) : i \in nextId..(nextId + k - 1)} |->
              IF x \in DOMAIN db THEN db[x] ELSE v]
  /\ nextId' = nextId + k
  /\ pending' = [pending EXCEPT ![g] = [i \in 1..k |-> nextId + i - 1]]
  /\ op' = [op EXCEPT ![g] = "put"]
  /\ pc' = [pc EXCEPT ![g] = "plock"]
  /\ solo' = NoSolo
  /\ calls' = calls + 1
  /\ UNCHANGED bvars
  /\ UNCHANGED <<ids, c, mutex, crashed, ipc, it, clpc, cit, cb, n, t, cancel, b, ret>>

(***************************************************************************)
(* putKey (queue.go:111-118)                                               *)
(***************************************************************************)
\* Line 112: q.mutex.Lock().
PutKeyLock(g) ==
  /\ ~crashed
  /\ pc[g] = "plock"
  /\ mutex = "none"
  /\ mutex' = g
  /\ pc' = [pc EXCEPT ![g] = "ploop"]
  /\ UNCHANGED bvars
  /\ UNCHANGED <<db, ids, c, crashed, ipc, it, clpc, cit, cb, n, t, cancel, b,
                 pending, op, ret, nextId, calls, solo>>

\* A putKey that signals an id it did not push.
PutKeySkipPush(g) ==
  /\ ~crashed
  /\ pc[g] = "ploop"
  /\ pending[g] # <<>>
  /\ pc' = [pc EXCEPT ![g] = "psend"]
  /\ UNCHANGED bvars
  /\ UNCHANGED <<db, ids, c, mutex, crashed, ipc, it, clpc, cit, cb, n, t, cancel, b,
                 pending, op, ret, nextId, calls, solo>>

\* Line 115: the next id is pushed.
PutKeyPush(g) ==
  /\ ~crashed
  /\ pc[g] = "ploop"
  /\ pending[g] # <<>>
  /\ ids' = PushID(ids, Head(pending[g]))
  /\ pc' = [pc EXCEPT ![g] = "psend"]
  /\ UNCHANGED bvars
  /\ UNCHANGED <<db, c, mutex, crashed, ipc, it, clpc, cit, cb, n, t, cancel, b,
                 pending, op, ret, nextId, calls, solo>>

\* Line 116: its signal is sent, once the channel has room.
PutKeySend(g) ==
  /\ ~crashed
  /\ pc[g] = "psend"
  /\ c < MaxQueue
  /\ c' = c + 1
  /\ pending' = [pending EXCEPT ![g] = Tail(pending[g])]
  /\ pc' = [pc EXCEPT ![g] = "ploop"]
  /\ UNCHANGED bvars
  /\ UNCHANGED <<db, ids, mutex, crashed, ipc, it, clpc, cit, cb, n, t, cancel, b,
                 op, ret, nextId, calls, solo>>

\* Line 113: the deferred Unlock, after the last id.
PutKeyUnlock(g) ==
  /\ ~crashed
  /\ pc[g] = "ploop"
  /\ pending[g] = <<>>
  /\ mutex' = "none"
  /\ pc' = [pc EXCEPT ![g] = "idle"]
  /\ op' = [op EXCEPT ![g] = "none"]
  /\ UNCHANGED bvars
  /\ UNCHANGED <<db, ids, c, crashed, ipc, it, clpc, cit, cb, n, t, cancel, b,
                 pending, ret, nextId, calls, solo>>

(***************************************************************************)
(* take and awaitKeys (queue.go:148-196)                                   *)
(***************************************************************************)
\* Lines 174-176 and 149-155: take calls awaitKeys, which starts the timer.
Take(g, nn, tt) ==
  /\ Open
  /\ g \in Consumers
  /\ pc[g] = "idle"
  /\ pc' = [pc EXCEPT ![g] = "select"]
  /\ op' = [op EXCEPT ![g] = "take"]
  /\ n' = [n EXCEPT ![g] = nn]
  /\ t' = [t EXCEPT ![g] = tt]
  /\ solo' = SoloAt(g)
  /\ calls' = calls + 1
  /\ UNCHANGED bvars
  /\ UNCHANGED <<db, ids, c, mutex, crashed, ipc, it, clpc, cit, cb, cancel, b,
                 pending, ret, nextId>>

\* Lines 150-152: the timer fires and closes cancel; a timer of no limit
\* never fires. cancel is read by the select only, so a timer that fires
\* while the goroutine is between two selects is one that fires as it
\* reaches the next.
Timeout(g) ==
  /\ ~crashed
  /\ pc[g] = "select"
  /\ t[g] # "forever"
  /\ ~cancel[g]
  /\ cancel' = [cancel EXCEPT ![g] = TRUE]
  /\ UNCHANGED bvars
  /\ UNCHANGED <<db, ids, c, mutex, crashed, ipc, it, clpc, cit, cb, pc, n, t, b,
                 pending, op, ret, nextId, calls, solo>>

\* Where awaitKeys returns to: take's fetch, or awaitKey's line 136.
AfterAwaitKeys(g) == IF op[g] = "take" THEN "fetch" ELSE "akret"

\* Line 158: a signal is received.
AwaitKeysRecv(g) ==
  /\ ~crashed
  /\ pc[g] = "select"
  /\ c > 0
  /\ c' = c - 1
  /\ pc' = [pc EXCEPT ![g] = "lock"]
  /\ UNCHANGED bvars
  /\ UNCHANGED <<db, ids, mutex, crashed, ipc, it, clpc, cit, cb, n, t, cancel, b,
                 pending, op, ret, nextId, calls, solo>>

\* The step of lines 159-165 that leaves the heap h2 and the list b2.
AwaitKeysPopTo(g, h2, b2) ==
  /\ ~crashed
  /\ pc[g] = "lock"
  /\ mutex = "none"
  /\ IF ids = <<>>
       THEN /\ crashed' = TRUE
            /\ UNCHANGED <<ids, b, pc>>
       ELSE /\ ids' = h2
            /\ b' = [b EXCEPT ![g] = b2]
            /\ pc' = [pc EXCEPT ![g] =
                        IF Len(b2) = n[g] THEN AfterAwaitKeys(g) ELSE "select"]
            /\ UNCHANGED crashed
  /\ UNCHANGED bvars
  /\ UNCHANGED <<db, c, mutex, ipc, it, clpc, cit, cb, n, t, cancel,
                 pending, op, ret, nextId, calls, solo>>

\* A pop that leaves the id in the heap.
AwaitKeysPeek(g) ==
  AwaitKeysPopTo(g, ids, Append(b[g], IDToKey(PopID(ids).id)))

\* A pop whose key is put in front of the keys collected.
AwaitKeysPrepend(g) ==
  AwaitKeysPopTo(g, PopID(ids).rest, <<IDToKey(PopID(ids).id)>> \o b[g])

\* Lines 159-165: under the mutex the least id is popped; its key is
\* appended, and awaitKeys returns when it holds n keys. PopID of an empty
\* heap panics.
AwaitKeysPop(g) ==
  AwaitKeysPopTo(g, PopID(ids).rest, Append(b[g], IDToKey(PopID(ids).id)))

\* An awaitKeys that gives up without waiting for cancel to be closed.
AwaitKeysGiveUp(g) ==
  /\ ~crashed
  /\ pc[g] = "select"
  /\ t[g] # "forever"
  /\ pc' = [pc EXCEPT ![g] = AfterAwaitKeys(g)]
  /\ UNCHANGED bvars
  /\ UNCHANGED <<db, ids, c, mutex, crashed, ipc, it, clpc, cit, cb, n, t, cancel, b,
                 pending, op, ret, nextId, calls, solo>>

\* An awaitKeys that returns nil when cancel is closed.
AwaitKeysCancelDrop(g) ==
  /\ ~crashed
  /\ pc[g] = "select"
  /\ cancel[g]
  /\ b' = [b EXCEPT ![g] = <<>>]
  /\ pc' = [pc EXCEPT ![g] = AfterAwaitKeys(g)]
  /\ UNCHANGED bvars
  /\ UNCHANGED <<db, ids, c, mutex, crashed, ipc, it, clpc, cit, cb, n, t, cancel,
                 pending, op, ret, nextId, calls, solo>>

\* Lines 166-168: cancel is closed, awaitKeys returns what it holds.
AwaitKeysCancel(g) ==
  /\ ~crashed
  /\ pc[g] = "select"
  /\ cancel[g]
  /\ pc' = [pc EXCEPT ![g] = AfterAwaitKeys(g)]
  /\ UNCHANGED bvars
  /\ UNCHANGED <<db, ids, c, mutex, crashed, ipc, it, clpc, cit, cb, n, t, cancel, b,
                 pending, op, ret, nextId, calls, solo>>

\* The value take reads for key k.
ValueOf(k) == Get(db, joinKey(QNs, k))

\* Lines 178-195: the value of every key is read. A failing read returns
\* the error and nothing else; the store decides whether a read fails.
\* b keeps the keys the call popped.
TakeFetch(g, fail) ==
  /\ ~crashed
  /\ pc[g] = "fetch"
  /\ fail => b[g] # <<>>
  /\ ret' = [ret EXCEPT ![g] =
               IF fail
                 THEN [ids |-> <<>>, keys |-> <<>>, values |-> <<>>, err |-> TRUE]
                 ELSE [ids |-> MapSeq(KeyToID, b[g]), keys |-> b[g],
                       values |-> MapSeq(ValueOf, b[g]), err |-> FALSE]]
  /\ pc' = [pc EXCEPT ![g] = "done"]
  /\ UNCHANGED bvars
  /\ UNCHANGED <<db, ids, c, mutex, crashed, ipc, it, clpc, cit, cb, n, t, cancel, b,
                 pending, op, nextId, calls, solo>>

(***************************************************************************)
(* awaitKey (queue.go:123-143)                                             *)
(***************************************************************************)
\* Lines 124-134: a signal is taken if one is buffered; if none is, a
\* timeout of 0 returns nil and any other timeout calls awaitKeys(1, t).
AwaitKey(g, tt) ==
  /\ Open
  /\ g \in Consumers
  /\ pc[g] = "idle"
  /\ op' = [op EXCEPT ![g] = "awaitKey"]
  /\ n' = [n EXCEPT ![g] = 1]
  /\ t' = [t EXCEPT ![g] = tt]
  /\ IF c > 0
       THEN c' = c - 1 /\ pc' = [pc EXCEPT ![g] = "aklock"]
       ELSE c' = c /\ pc' = [pc EXCEPT ![g] = IF tt = "0" THEN "done" ELSE "select"]
  /\ solo' = SoloAt(g)
  /\ calls' = calls + 1
  /\ UNCHANGED bvars
  /\ UNCHANGED <<db, ids, mutex, crashed, ipc, it, clpc, cit, cb, cancel, b,
                 pending, ret, nextId>>

\* Lines 127-129: under the mutex the least id is popped and its key
\* returned.
AwaitKeyPop(g) ==
  /\ ~crashed
  /\ pc[g] = "aklock"
  /\ mutex = "none"
  /\ IF ids = <<>>
       THEN /\ crashed' = TRUE
            /\ UNCHANGED <<ids, b, pc, ret>>
       ELSE /\ ids' = PopID(ids).rest
            /\ b' = [b EXCEPT ![g] = <<IDToKey(PopID(ids).id)>>]
            /\ ret' = [ret EXCEPT ![g] = [NoRet EXCEPT !.keys = <<IDToKey(PopID(ids).id)>>]]
            /\ pc' = [pc EXCEPT ![g] = "done"]
            /\ UNCHANGED crashed
  /\ UNCHANGED bvars
  /\ UNCHANGED <<db, c, mutex, ipc, it, clpc, cit, cb, n, t, cancel,
                 pending, op, nextId, calls, solo>>

\* Lines 135-140: the one key awaitKeys returned, or nil.
AwaitKeyReturn(g) ==
  /\ ~crashed
  /\ pc[g] = "akret"
  /\ ret' = [ret EXCEPT ![g] = [NoRet EXCEPT !.keys = IF Len(b[g]) = 1 THEN b[g] ELSE <<>>]]
  /\ pc' = [pc EXCEPT ![g] = "done"]
  /\ UNCHANGED bvars
  /\ UNCHANGED <<db, ids, c, mutex, crashed, ipc, it, clpc, cit, cb, n, t, cancel, b,
                 pending, op, nextId, calls, solo>>

(***************************************************************************)
(* The transaction that made the call resolves.                            *)
(***************************************************************************)
Forget(g) ==
  /\ n' = [n EXCEPT ![g] = 0]
  /\ t' = [t EXCEPT ![g] = "0"]
  /\ cancel' = [cancel EXCEPT ![g] = FALSE]
  /\ b' = [b EXCEPT ![g] = <<>>]
  /\ ret' = [ret EXCEPT ![g] = NoRet]
  /\ solo' = NoSolo

\* Commit: the keys taken are deleted from the store.
Commit(g) ==
  /\ ~crashed
  /\ pc[g] = "done"
  /\ db' = Without(db, {joinKey(QNs, k) : k \in Range(ret[g].keys)})
  /\ pc' = [pc EXCEPT ![g] = "idle"]
  /\ op' = [op EXCEPT ![g] = "none"]
  /\ Forget(g)
  /\ UNCHANGED bvars
  /\ UNCHANGED <<ids, c, mutex, crashed, ipc, it, clpc, cit, cb, pending, nextId, calls>>

\* Abort: the ids taken are put back with putKey.
Abort(g) ==
  /\ ~crashed
  /\ pc[g] = "done"
  /\ ret[g].keys # <<>>
  /\ pending' = [pending EXCEPT ![g] = MapSeq(KeyToID, ret[g].keys)]
  /\ pc' = [pc EXCEPT ![g] = "plock"]
  /\ op' = [op EXCEPT ![g] = "abort"]
  /\ Forget(g)
  /\ UNCHANGED bvars
  /\ UNCHANGED <<db, ids, c, mutex, crashed, ipc, it, clpc, cit, cb, nextId, calls>>

(***************************************************************************)
(* Clear (queue.go:66-97)                                                  *)
(***************************************************************************)
\* Lines 69-80: the batch and the iterator are created, the iterator is
\* placed on the namespace. Clear is called with no transaction open.
ClearCall ==
  /\ Open
  /\ \A g \in Procs : pc[g] = "idle"
  /\ cit' = Seek(db, QNs)
  /\ cb' = {}
  /\ clpc' = "loop"
  /\ solo' = NoSolo
  /\ calls' = calls + 1
  /\ UNCHANGED bvars
  /\ UNCHANGED <<db, ids, c, mutex, crashed, ipc, it, pc, n, t, cancel, b,
                 pending, op, ret, nextId>>

\* Lines 83-89: one turn of the loop on a key of the namespace. A Delete of
\* the key is added to the batch; the iterator is not moved, so the next
\* turn finds the same key. The batch is kept as the set of keys it
\* deletes: a Delete added again changes nothing of what Write would do.
ClearLoop ==
  /\ ~crashed
  /\ clpc = "loop"
  /\ ~PastEnd(cit)
  /\ cb' = cb \cup {Head(cit)}
  /\ UNCHANGED bvars
  /\ UNCHANGED <<db, ids, c, mutex, crashed, ipc, it, clpc, cit, pc, n, t, cancel, b,
                 pending, op, ret, nextId, calls, solo>>

\* Lines 83-96: the loop ends (no key left, or a key past the namespace)
\* and the batch is written.
ClearWrite ==
  /\ ~crashed
  /\ clpc = "loop"
  /\ PastEnd(cit)
  /\ db' = Without(db, cb)
  /\ clpc' = "done"
  /\ cit' = <<>>
  /\ cb' = {}
  /\ UNCHANGED bvars
  /\ UNCHANGED <<ids, c, mutex, crashed, ipc, it, pc, n, t, cancel, b,
                 pending, op, ret, nextId, calls, solo>>

\* Line 96: Clear returns what the write returned.
ClearReturn ==
  /\ ~crashed
  /\ clpc = "done"
  /\ clpc' = "idle"
  /\ UNCHANGED bvars
  /\ UNCHANGED <<db, ids, c, mutex, crashed, ipc, it, cit, cb, pc, n, t, cancel, b,
                 pending, op, ret, nextId, calls, solo>>

Next ==
  \/ InitSeek
  \/ InitLoop
  \/ InitSend
  \/ \E g \in Procs : \E k \in PutSizes : \E v \in Payloads : Put(g, k, v)
  \/ \E g \in Procs : PutKeyLock(g)
  \/ \E g \in Procs : PutKeyPush(g)
  \/ \E g \in Procs : PutKeySend(g)
  \/ \E g \in Procs : PutKeyUnlock(g)
  \/ \E g \in Procs : \E nn \in 0..MaxN : \E tt \in Timeouts : Take(g, nn, tt)
  \/ \E g \in Procs : Timeout(g)
  \/ \E g \in Procs : AwaitKeysRecv(g)
  \/ \E g \in Procs : AwaitKeysPop(g)
  \/ \E g \in Procs : AwaitKeysCancel(g)
  \/ \E g \in Procs : \E fail \in BOOLEAN : TakeFetch(g, fail)
  \/ \E g \in Procs : \E tt \in Timeouts : AwaitKey(g, tt)
  \/ \E g \in Procs : AwaitKeyPop(g)
  \/ \E g \in Procs : AwaitKeyReturn(g)
  \/ \E g \in Procs : Commit(g)
  \/ \E g \in Procs : Abort(g)
  \/ ClearCall
  \/ ClearLoop
  \/ ClearWrite
  \/ ClearReturn

Spec == Init /\ [][Next]_vars

FairSpec == Spec /\ WF_vars(ClearLoop) /\ WF_vars(ClearWrite) /\ WF_vars(ClearReturn)

\* The goroutine that constructs the queue is scheduled while it can run.
InitFairSpec == Spec /\ WF_vars(InitSeek) /\ WF_vars(InitLoop) /\ WF_vars(InitSend)


(***************************************************************************)
(* The goleveldb Bucket (backend/goleveldb/goleveldb.go), its calls made   *)
(* one at a time on a store that starts empty (NewMem).                    *)
(***************************************************************************)
\* The namespaces of the Buckets: the empty one, one byte, and that byte
\* followed by another.
BucketNss == {<<>>, <<1>>, <<1, 1>>}
\* The keys and the values the callers pass.
UserKeys == {<<0>>, <<1, 0>>}
Values == {"v", "w"}

NoBRet == [op |-> "none", err |-> FALSE, val |-> "nil"]

\* util.BytesPrefix: the limit of the range of a prefix is the prefix with
\* its last byte below the largest byte raised by one and the bytes after
\* it dropped; nil (no limit) when there is no such byte.
RECURSIVE PrefixLimit(_)
PrefixLimit(prefix) ==
  IF prefix = <<>> THEN <<>>
  ELSE IF prefix[Len(prefix)] < ByteBase - 1
    THEN [prefix EXCEPT ![Len(prefix)] = @ + 1]
    ELSE PrefixLimit(SubSeq(prefix, 1, Len(prefix) - 1))

\* NewIterator(util.BytesPrefix(ns)): the keys from ns to the limit, in
\* order.
PrefixIterator(store, ns) ==
  SortedKeys({k \in DOMAIN store :
                /\ ~BytesLess(k, ns)
                /\ IF PrefixLimit(ns) = <<>> THEN TRUE ELSE BytesLess(k, PrefixLimit(ns))})

\* kk[len(q.ns):]
Strip(ns, kk) == SubSeq(kk, Len(ns) + 1, Len(kk))

\* append(ns[:], k...), by one goroutine
AppendKey(ns, k) == ns \o k

\* leveldb's Write: the operations of a batch applied in order.
RECURSIVE ApplyBatch(_, _)
ApplyBatch(store, ops) ==
  IF ops = <<>> THEN store
  ELSE ApplyBatch(IF Head(ops).op = "put"
                    THEN With(store, Head(ops).key, Head(ops).val)
                    ELSE Without(store, {Head(ops).key}),
                  Tail(ops))

\* History: who put the keys, after a batch of the Bucket ns.
RECURSIVE ApplyWriter(_, _, _)
ApplyWriter(w, ops, ns) ==
  IF ops = <<>> THEN w
  ELSE ApplyWriter(IF Head(ops).op = "put"
                     THEN With(w, Head(ops).key, ns)
                     ELSE Without(w, {Head(ops).key}),
                   Tail(ops), ns)

QueueOff ==
  /\ db = <<>>
  /\ ids = <<>>
  /\ c = 0
  /\ mutex = "none"
  /\ crashed = FALSE
  /\ ipc = "off"
  /\ it = <<>>
  /\ clpc = "off"
  /\ cit = <<>>
  /\ cb = {}
  /\ pc = [g \in Procs |-> "off"]
  /\ n = [g \in Procs |-> 0]
  /\ t = [g \in Procs |-> "0"]
  /\ cancel = [g \in Procs |-> FALSE]
  /\ b = [g \in Procs |-> <<>>]
  /\ pending = [g \in Procs |-> <<>>]
  /\ op = [g \in Procs |-> "none"]
  /\ ret = [g \in Procs |-> NoRet]
  /\ nextId = 0
  /\ calls = 0
  /\ solo = NoSolo

BucketInit ==
  /\ QueueOff
  /\ ldb = [k \in {} |-> "v"]
  /\ bpc = "idle"
  /\ bns = <<>>
  /\ bit = <<>>
  /\ bvis = <<>>
  /\ bbatch = <<>>
  /\ bret = NoBRet
  /\ ldb0 = [k \in {} |-> "v"]
  /\ writer = [k \in {} |-> <<>>]
  /\ bcalls = <<>>
  /\ KeyOff

\* A call is made on the Bucket of namespace ns.
BucketCall(ns, what, r) ==
  /\ bpc = "idle"
  /\ bpc' = what
  /\ bns' = ns
  /\ bvis' = <<>>
  /\ bbatch' = <<>>
  /\ bret' = r
  /\ ldb0' = ldb
  /\ bcalls' = <<>>

\* Lines 70-72: ForEach creates the iterator of the prefix.
ForEachCall(ns) ==
  /\ BucketCall(ns, "foreach", NoBRet)
  /\ bit' = PrefixIterator(ldb, ns)
  /\ UNCHANGED <<ldb, writer>>
  /\ UNCHANGED kvars
  /\ UNCHANGED qvars

\* A ForEach that passes the key as the store holds it.
ForEachVisitRaw(fails) ==
  /\ bpc = "foreach"
  /\ bit # <<>>
  /\ bvis' = Append(bvis, Head(bit))
  /\ IF fails
       THEN /\ bpc' = "ret"
            /\ bret' = [op |-> "foreach", err |-> TRUE, val |-> "nil"]
            /\ bit' = <<>>
       ELSE /\ bit' = Tail(bit)
            /\ UNCHANGED <<bpc, bret>>
  /\ UNCHANGED <<ldb, bns, bbatch, ldb0, writer>>
  /\ UNCHANGED bcalls
  /\ UNCHANGED kvars
  /\ UNCHANGED qvars

\* Lines 74-79: the next key is passed to fn without the namespace; an
\* error of fn is returned.
ForEachVisit(fails) ==
  /\ bpc = "foreach"
  /\ bit # <<>>
  /\ bvis' = Append(bvis, Strip(bns, Head(bit)))
  /\ IF fails
       THEN /\ bpc' = "ret"
            /\ bret' = [op |-> "foreach", err |-> TRUE, val |-> "nil"]
            /\ bit' = <<>>
       ELSE /\ bit' = Tail(bit)
            /\ UNCHANGED <<bpc, bret>>
  /\ UNCHANGED <<ldb, bns, bbatch, ldb0, writer>>
  /\ UNCHANGED bcalls
  /\ UNCHANGED kvars
  /\ UNCHANGED qvars

\* Lines 74 and 82: no key is left, ForEach returns nil.
ForEachEnd ==
  /\ bpc = "foreach"
  /\ bit = <<>>
  /\ bpc' = "ret"
  /\ bret' = [op |-> "foreach", err |-> FALSE, val |-> "nil"]
  /\ UNCHANGED <<ldb, bns, bit, bvis, bbatch, ldb0, writer>>
  /\ UNCHANGED bcalls
  /\ UNCHANGED kvars
  /\ UNCHANGED qvars

\* Lines 103-106: Get reads the key namespace||k; a key the store does not
\* hold is leveldb.ErrNotFound.
BucketGet(ns, k) ==
  /\ BucketCall(ns, "ret",
                IF AppendKey(ns, k) \in DOMAIN ldb
                  THEN [op |-> "get", err |-> FALSE, val |-> ldb[AppendKey(ns, k)]]
                  ELSE [op |-> "get", err |-> TRUE, val |-> "nil"])
  /\ UNCHANGED <<ldb, bit, writer>>
  /\ UNCHANGED kvars
  /\ UNCHANGED qvars

\* Lines 89-96: Batch creates the batch and calls fn with it.
BatchCall(ns) ==
  /\ BucketCall(ns, "batch", NoBRet)
  /\ UNCHANGED <<ldb, bit, writer>>
  /\ UNCHANGED kvars
  /\ UNCHANGED qvars

\* Lines 132-136: fn stages a Put.
BatchPut(k, v) ==
  /\ bpc = "batch"
  /\ Len(bbatch) < MaxBatch
  /\ bbatch' = Append(bbatch, [op |-> "put", key |-> AppendKey(bns, k), val |-> v])
  /\ bcalls' = Append(bcalls, [op |-> "put", key |-> k, val |-> v])
  /\ UNCHANGED <<ldb, bpc, bns, bit, bvis, bret, ldb0, writer>>
  /\ UNCHANGED kvars
  /\ UNCHANGED qvars

\* Lines 138-142: fn stages a Delete.
BatchDelete(k) ==
  /\ bpc = "batch"
  /\ Len(bbatch) < MaxBatch
  /\ bbatch' = Append(bbatch, [op |-> "del", key |-> AppendKey(bns, k), val |-> "nil"])
  /\ bcalls' = Append(bcalls, [op |-> "del", key |-> k, val |-> "nil"])
  /\ UNCHANGED <<ldb, bpc, bns, bit, bvis, bret, ldb0, writer>>
  /\ UNCHANGED kvars
  /\ UNCHANGED qvars

\* A Batch that writes what fn staged although fn returned an error.
BatchFailWrites ==
  /\ bpc = "batch"
  /\ bpc' = "ret"
  /\ ldb' = ApplyBatch(ldb, bbatch)
  /\ writer' = ApplyWriter(writer, bbatch, bns)
  /\ bbatch' = <<>>
  /\ bret' = [op |-> "batch", err |-> TRUE, val |-> "nil"]
  /\ UNCHANGED <<bns, bit, bvis, ldb0>>
  /\ UNCHANGED bcalls
  /\ UNCHANGED kvars
  /\ UNCHANGED qvars

\* Lines 95-98 and 153-155: fn returns an error; the batch is reset and the
\* error returned.
BatchFail ==
  /\ bpc = "batch"
  /\ bpc' = "ret"
  /\ bbatch' = <<>>
  /\ bret' = [op |-> "batch", err |-> TRUE, val |-> "nil"]
  /\ UNCHANGED <<ldb, bns, bit, bvis, ldb0, writer>>
  /\ UNCHANGED bcalls
  /\ UNCHANGED kvars
  /\ UNCHANGED qvars

\* Lines 99 and 144-147: fn returns nil; the batch is written.
BatchWrite ==
  /\ bpc = "batch"
  /\ bpc' = "ret"
  /\ ldb' = ApplyBatch(ldb, bbatch)
  /\ writer' = ApplyWriter(writer, bbatch, bns)
  /\ bbatch' = <<>>
  /\ bret' = [op |-> "batch", err |-> FALSE, val |-> "nil"]
  /\ UNCHANGED <<bns, bit, bvis, ldb0>>
  /\ UNCHANGED bcalls
  /\ UNCHANGED kvars
  /\ UNCHANGED qvars

\* Lines 110-113: Clear creates the iterator of the prefix and a batch.
BucketClearCall(ns) ==
  /\ BucketCall(ns, "clear", NoBRet)
  /\ bit' = PrefixIterator(ldb, ns)
  /\ UNCHANGED <<ldb, writer>>
  /\ UNCHANGED kvars
  /\ UNCHANGED qvars

\* Lines 115-119: the next key is taken without the namespace and a Delete
\* of it is staged in the leveldb.Batch.
BucketClearStep ==
  /\ bpc = "clear"
  /\ bit # <<>>
  /\ bbatch' = Append(bbatch, [op |-> "del", key |-> Strip(bns, Head(bit)), val |-> "nil"])
  /\ bit' = Tail(bit)
  /\ UNCHANGED <<ldb, bpc, bns, bvis, bret, ldb0, writer>>
  /\ UNCHANGED bcalls
  /\ UNCHANGED kvars
  /\ UNCHANGED qvars

\* Lines 121-122: the batch is written.
BucketClearWrite ==
  /\ bpc = "clear"
  /\ bit = <<>>
  /\ bpc' = "ret"
  /\ ldb' = ApplyBatch(ldb, bbatch)
  /\ writer' = ApplyWriter(writer, bbatch, bns)
  /\ bbatch' = <<>>
  /\ bret' = [op |-> "clear", err |-> FALSE, val |-> "nil"]
  /\ UNCHANGED <<bns, bit, bvis, ldb0>>
  /\ UNCHANGED bcalls
  /\ UNCHANGED kvars
  /\ UNCHANGED qvars

\* The caller has the result and may make the next call.
BucketReturn ==
  /\ bpc = "ret"
  /\ bpc' = "idle"
  /\ UNCHANGED <<ldb, bns, bit, bvis, bbatch, bret, ldb0, writer>>
  /\ UNCHANGED bcalls
  /\ UNCHANGED kvars
  /\ UNCHANGED qvars

BucketNext ==
  \/ \E ns \in BucketNss : ForEachCall(ns)
  \/ \E fails \in BOOLEAN : ForEachVisit(fails)
  \/ ForEachEnd
  \/ \E ns \in BucketNss : \E k \in UserKeys : BucketGet(ns, k)
  \/ \E ns \in BucketNss : BatchCall(ns)
  \/ \E k \in UserKeys : \E v \in Values : BatchPut(k, v)
  \/ \E k \in UserKeys : BatchDelete(k)
  \/ BatchFail
  \/ BatchWrite
  \/ \E ns \in BucketNss : BucketClearCall(ns)
  \/ BucketClearStep
  \/ BucketClearWrite
  \/ BucketReturn

BucketSpec == BucketInit /\ [][BucketNext]_vars

(***************************************************************************)
(* Concurrent calls on one Bucket: Get, Batch.Put and Batch.Delete build   *)
(* their key with append(ns[:], k...) (goleveldb.go:104, 133, 139) on the  *)
(* ns slice that DB.Bucket made (goleveldb.go:48-54).  The Batch of a      *)
(* Bucket has the Bucket's ns slice (goleveldb.go:91), so all of them      *)
(* share one array.                                                        *)
(***************************************************************************)
\* The name of the Bucket the callers share.
RaceNs == <<1>>

\* The largest number of spare bytes of the array behind ns.
MaxSpare == 2

\* []byte(name): a slice of the length of the name; its capacity is the
\* runtime's choice, the length or more.
NsCaps == {Len(RaceNs) + i : i \in 0..MaxSpare}

\* The value a caller puts.
RaceValue == "v"

RaceInit ==
  /\ QueueOff
  /\ ldb = [k \in {} |-> "v"]
  /\ bpc = "off"
  /\ bns = <<>>
  /\ bit = <<>>
  /\ bvis = <<>>
  /\ bbatch = <<>>
  /\ bret = NoBRet
  /\ ldb0 = <<>>
  /\ writer = <<>>
  /\ bcalls = <<>>
  /\ nscap \in NsCaps
  /\ nsarr = [i \in 1..nscap |-> IF i <= Len(RaceNs) THEN RaceNs[i] ELSE 0]
  /\ kpc = [g \in Callers |-> "idle"]
  /\ kop = [g \in Callers |-> NoOp]
  /\ kpos = [g \in Callers |-> 0]
  /\ kslice = [g \in Callers |-> NoSlice]
  /\ kused = [g \in Callers |-> <<>>]
  /\ kret = [g \in Callers |-> "nil"]

RaceFrame ==
  /\ UNCHANGED <<bpc, bns, bit, bvis, bbatch, bret, ldb0, writer, bcalls, nscap>>
  /\ UNCHANGED qvars

\* append(ns[:], k...), its first half: when the array has room for k the
\* result is a slice of the same array, and k is then copied into the
\* spare bytes; when it has not, the result is a new array holding ns and
\* k.
KeyCall(g, what, k) ==
  /\ kpc[g] = "idle"
  /\ kop' = [kop EXCEPT ![g] = [op |-> what, key |-> k,
                                 val |-> IF what = "put" THEN RaceValue ELSE "nil"]]
  /\ IF Len(RaceNs) + Len(k) <= nscap
       THEN /\ kslice' = [kslice EXCEPT ![g] = [shared |-> TRUE, key |-> <<>>]]
            /\ kpos' = [kpos EXCEPT ![g] = 1]
            /\ kpc' = [kpc EXCEPT ![g] = "copy"]
       ELSE /\ kslice' = [kslice EXCEPT ![g] = [shared |-> FALSE, key |-> RaceNs \o k]]
            /\ kpos' = kpos
            /\ kpc' = [kpc EXCEPT ![g] = "use"]
  /\ UNCHANGED <<ldb, nsarr, kused, kret>>
  /\ RaceFrame

\* append's copy into the shared array, a byte at a time; no lock orders
\* the copies of two callers.
KeyCopy(g) ==
  /\ kpc[g] = "copy"
  /\ nsarr' = [nsarr EXCEPT ![Len(RaceNs) + kpos[g]] = kop[g].key[kpos[g]]]
  /\ IF kpos[g] = Len(kop[g].key)
       THEN kpos' = [kpos EXCEPT ![g] = 0] /\ kpc' = [kpc EXCEPT ![g] = "use"]
       ELSE kpos' = [kpos EXCEPT ![g] = kpos[g] + 1] /\ kpc' = kpc
  /\ UNCHANGED <<ldb, kop, kslice, kused, kret>>
  /\ RaceFrame

\* The bytes of kk when it is read.
SliceKey(g) ==
  IF kslice[g].shared
    THEN SubSeq(nsarr, 1, Len(RaceNs) + Len(kop[g].key))
    ELSE kslice[g].key

\* Lines 105, 134 and 140: kk is handed to leveldb, which reads it: Get
\* looks it up, the leveldb.Batch copies it into the operation it stages.
KeyUse(g) ==
  /\ kpc[g] = "use"
  /\ kused' = [kused EXCEPT ![g] = SliceKey(g)]
  /\ IF kop[g].op = "get"
       THEN /\ kret' = [kret EXCEPT ![g] = Get(ldb, SliceKey(g))]
            /\ kpc' = [kpc EXCEPT ![g] = "done"]
       ELSE /\ kret' = kret
            /\ kpc' = [kpc EXCEPT ![g] = "staged"]
  /\ UNCHANGED <<ldb, nsarr, kop, kpos, kslice>>
  /\ RaceFrame

\* Lines 99 and 144-147: fn returns nil and the Batch is written.
KeyWrite(g) ==
  /\ kpc[g] = "staged"
  /\ ldb' = IF kop[g].op = "put"
              THEN With(ldb, kused[g], kop[g].val)
              ELSE Without(ldb, {kused[g]})
  /\ kpc' = [kpc EXCEPT ![g] = "done"]
  /\ UNCHANGED <<nsarr, kop, kpos, kslice, kused, kret>>
  /\ RaceFrame

\* The caller has its result and may make its next call.
KeyReturn(g) ==
  /\ kpc[g] = "done"
  /\ kpc' = [kpc EXCEPT ![g] = "idle"]
  /\ kop' = [kop EXCEPT ![g] = NoOp]
  /\ kslice' = [kslice EXCEPT ![g] = NoSlice]
  /\ kused' = [kused EXCEPT ![g] = <<>>]
  /\ kret' = [kret EXCEPT ![g] = "nil"]
  /\ UNCHANGED <<ldb, nsarr, kpos>>
  /\ RaceFrame

RaceNext ==
  \/ \E g \in Callers : \E what \in {"get", "put", "del"} : \E k \in UserKeys :
       KeyCall(g, what, k)
  \/ \E g \in Callers : KeyCopy(g)
  \/ \E g \in Callers : KeyUse(g)
  \/ \E g \in Callers : KeyWrite(g)
  \/ \E g \in Callers : KeyReturn(g)

RaceSpec == RaceInit /\ [][RaceNext]_vars

(***************************************************************************)
(* The claims about the Queue.                                             *)
(***************************************************************************)
Occurrences(s, x) == Cardinality({i \in 1..Len(s) : s[i] = x})

\* The ids the store holds under the queue's namespace.
StoredIds == {KeyToID(splitKey(QNs, k)) : k \in InNs(QNs, DOMAIN db)}

\* C1: exactly-once delivery. At any moment every id is in at most one
\* place: the heap, or the keys one call has popped, and there once. An id
\* that a call holds is not in the heap and is held by no other call.
C1_ExactlyOnce ==
  \A id \in 0..MaxId :
    Occurrences(ids, id)
      + Cardinality({<<g, i>> \in Procs \X (1..MaxId + 1) :
                       i <= Len(b[g]) /\ KeyToID(b[g][i]) = id}) <= 1

\* Two consumers ran their calls together and each returned with a key.
C1_Witness ==
  /\ b["c1"] # <<>>
  /\ b["c2"] # <<>>
  /\ pc["c1"] = "done"
  /\ pc["c2"] = "done"

\* C2: the signals buffered in the channel plus the consumers that received
\* a signal and did not pop yet never exceed the size of the heap, and
\* PopID never ran on an empty heap.
C2_SignalsWithinHeap ==
  /\ c + Cardinality({g \in Procs : pc[g] \in {"lock", "aklock"}}) <= Len(ids)
  /\ ~crashed

\* A consumer holds a signal, another signal is buffered, and a producer is
\* between its push and its signal.
C2_Witness ==
  /\ \E g \in Procs : pc[g] = "lock"
  /\ c > 0
  /\ \E g \in Procs : pc[g] = "psend"
  /\ c + Cardinality({g \in Procs : pc[g] \in {"lock", "aklock"}}) < Len(ids)

\* A take that ran alone from its call to its return, with no limit of
\* time, on a heap of exactly n ids, each with its signal.
TookAllAlone(g) ==
  /\ pc[g] = "done"
  /\ op[g] = "take"
  /\ solo.g = g
  /\ t[g] = "forever"
  /\ n[g] >= 1
  /\ Len(solo.h) = n[g]
  /\ solo.c = n[g]
  /\ ~ret[g].err

\* C3: FIFO. A Take(N, no limit) by a single consumer on N ids put
\* before it returns exactly these ids in ascending order, the order they
\* were put in, each with its key and the value stored under the key.
C3_Fifo ==
  \A g \in Procs :
    TookAllAlone(g) =>
      /\ ret[g].ids = solo.h
      /\ \A i \in 1..(Len(ret[g].ids) - 1) : ret[g].ids[i] < ret[g].ids[i + 1]
      /\ ret[g].keys = MapSeq(IDToKey, solo.h)
      /\ ret[g].values = MapSeq(ValueOf, ret[g].keys)

\* Two ids, one of them put by a Put of this run, were taken by one take.
C3_Witness ==
  \E g \in Procs :
    /\ TookAllAlone(g)
    /\ n[g] = 2
    /\ ~solo.first
    /\ ret[g].ids[1] < ret[g].ids[2]

\* C4: recovery. When init has returned nil the heap holds exactly the ids
\* of the keys the store holds under the namespace, and the channel as many
\* signals; a first Take(K, no limit) returns these K ids, each once.
C4_Recovery ==
  /\ (ipc = "done" /\ calls = 0) =>
       /\ Range(ids) = StoredIds
       /\ Len(ids) = Cardinality(StoredIds)
       /\ c = Cardinality(StoredIds)
  /\ \A g \in Procs :
       (TookAllAlone(g) /\ solo.first) =>
         /\ Range(ret[g].ids) = StoredIds
         /\ Len(ret[g].ids) = Cardinality(StoredIds)

\* The first call on a queue recovered from two keys took both.
C4_Witness ==
  \E g \in Procs :
    /\ TookAllAlone(g)
    /\ solo.first
    /\ Len(ret[g].ids) = 2
    /\ Cardinality(StoredIds) = 2

\* C5: a Take(1, 0) called when a signal is buffered and no other call
\* runs returns one item.
C5_TakeZeroDelivers ==
  \A g \in Procs :
    ( /\ pc[g] = "done"
      /\ op[g] = "take"
      /\ solo.g = g
      /\ solo.c >= 1
      /\ solo.h # <<>>
      /\ n[g] = 1
      /\ t[g] = "0"
      /\ ~ret[g].err ) => Len(ret[g].keys) = 1

\* C6: Take(n, t) returns at most n items.
C6_AtMostN ==
  \A g \in Procs :
    (pc[g] = "done" /\ op[g] = "take") => Len(ret[g].keys) <= n[g]

\* C7: after a take that failed on a read, every id the call popped is in
\* the heap again or is handed to the caller.
C7_FailedFetchKeepsIds ==
  \A g \in Procs :
    (pc[g] = "done" /\ op[g] = "take" /\ ret[g].err) =>
      \A k \in Range(b[g]) :
        KeyToID(k) \in Range(ids) \cup Range(ret[g].ids)

\* C8: a Clear that was called returns, and no key of the namespace is left
\* when it does.
C8_ClearTerminates ==
  /\ (clpc = "loop") ~> (clpc = "done")
  /\ [](clpc = "done" => InNs(QNs, DOMAIN db) = {})

\* No call is in progress on the queue: init has returned nil, no Clear
\* runs and every goroutine is outside putKey and take.
NoCallInProgress ==
  /\ ipc = "done"
  /\ clpc = "idle"
  /\ ~crashed
  /\ \A g \in Procs : pc[g] \in {"idle", "done"}

\* The take-sets of the open transactions: the ids of the keys that calls
\* returned and that were neither committed nor aborted yet.
TakeSets == UNION {{KeyToID(k) : k \in Range(ret[g].keys)} : g \in Procs}

\* C11: the heap mirrors the store. When no call is in progress the ids of
\* the heap are the ids the store holds under the namespace minus the ids
\* of the take-sets of the open transactions.
C11_HeapMirrorsStore ==
  NoCallInProgress => Range(ids) = StoredIds \ TakeSets

\* A take of one item with a timeout above 0, called on an empty queue
\* (no id in the heap, no signal buffered), that no other call overlapped.
LoneTakeOnEmpty(g) ==
  /\ op[g] = "take"
  /\ solo.g = g
  /\ solo.h = <<>>
  /\ solo.c = 0
  /\ n[g] = 1
  /\ t[g] = "T"

\* C12: the timeout is honored. Such a take leaves awaitKeys only once the
\* timer has closed cancel, and returns an empty result and no error.
C12_TimeoutHonored ==
  \A g \in Procs :
    /\ (LoneTakeOnEmpty(g) /\ pc[g] \in {"fetch", "done"}) => cancel[g]
    /\ (LoneTakeOnEmpty(g) /\ pc[g] = "done") =>
         /\ ret[g].ids = <<>>
         /\ ret[g].keys = <<>>
         /\ ret[g].values = <<>>
         /\ ~ret[g].err

\* A take(1, T) on an empty queue has returned.
C12_Witness ==
  \E g \in Procs : LoneTakeOnEmpty(g) /\ pc[g] = "done" /\ cancel[g]

\* awaitKeys has returned to its caller because cancel was closed, with
\* fewer than n keys, and no other call overlapped it.
CancelledAlone(g) ==
  /\ pc[g] \in {"fetch", "akret"}
  /\ cancel[g]
  /\ Len(b[g]) < n[g]
  /\ solo.g = g

C15_CleanFailure ==
  ipc = "err" => (ids = <<>> /\ c = 0)

\* A goroutine waits for the mutex.
WaitsForMutex(g) == pc[g] \in {"plock", "lock", "aklock"} /\ mutex # "none"

\* A goroutine holds the mutex and waits for room in the channel.
WaitsForRoom(g) == pc[g] = "psend" /\ mutex = g /\ c = MaxQueue

\* C17: no deadlock of producers and consumers. There is no state where a
\* putKey holds the mutex and waits for room in the full channel while a
\* consumer that received a signal waits for the mutex, and every other
\* goroutine is idle or waits for the mutex too.
C17_NoDeadlock ==
  ~ \E p \in Procs :
      /\ WaitsForRoom(p)
      /\ \E g \in Consumers : pc[g] \in {"lock", "aklock"}
      /\ \A g \in Procs \ {p} : pc[g] = "idle" \/ WaitsForMutex(g)

\* C19: init terminates. The init of a queue returns, whatever the number
\* of keys the store holds under the namespace.
C19_InitTerminates ==
  (ipc = "start") ~> (ipc \in {"done", "err"})

(***************************************************************************)
(* The claims about the Bucket.                                            *)
(***************************************************************************)
\* The keys a ForEach on the Bucket ns would visit, as fn gets them.
WouldVisit(store, ns) == {Strip(ns, kk) : kk \in Range(PrefixIterator(store, ns))}

\* C9: after a Clear that returned no error, a ForEach on the Bucket visits
\* no key and a Get of any key the Bucket held reports not found.
C9_ClearEmptiesBucket ==
  (bpc = "ret" /\ bret.op = "clear" /\ ~bret.err) =>
    /\ WouldVisit(ldb, bns) = {}
    /\ \A k \in WouldVisit(ldb0, bns) : AppendKey(bns, k) \notin DOMAIN ldb

\* C10: a ForEach on the Bucket of a namespace visits no key that the
\* Bucket of another namespace put, whether or not the bytes of the one
\* namespace start the other's. (Stated for the Buckets with a name: the
\* Bucket of the empty name is the whole store.)
C10_NamespacesIsolated ==
  (bpc \in {"foreach", "ret"} /\ bns # <<>>) =>
    \A k \in Range(bvis) : writer[AppendKey(bns, k)] \in {bns, <<>>}

\* The store after the calls fn made, each applied to the key namespace||k.
RECURSIVE Staged(_, _, _)
Staged(store, ns, ops) ==
  IF ops = <<>> THEN store
  ELSE Staged(IF Head(ops).op = "put"
                THEN With(store, ns \o Head(ops).key, Head(ops).val)
                ELSE Without(store, {ns \o Head(ops).key}),
              ns, Tail(ops))

\* C14: a Batch is all or nothing. Nothing reaches the store while fn
\* stages its operations; when fn returns an error the error is returned
\* and the store is as it was; when fn returns nil the store is the one of
\* the call with every staged operation applied to the key namespace||k.
C14_BatchAllOrNothing ==
  /\ bpc = "batch" => ldb = ldb0
  /\ (bpc = "ret" /\ bret.op = "batch" /\ bcalls = <<>>) => ldb = ldb0
  /\ (bpc = "ret" /\ bret.op = "batch" /\ bret.err) => ldb = ldb0
  /\ (bpc = "ret" /\ bret.op = "batch" /\ ~bret.err) => ldb = Staged(ldb0, bns, bcalls)

\* A Batch of a Bucket with a name wrote a Put and a Delete, and changed
\* the store.
C14_Witness ==
  /\ bpc = "ret"
  /\ bret.op = "batch"
  /\ ~bret.err
  /\ bns # <<>>
  /\ Len(bcalls) = 2
  /\ bcalls[1].op # bcalls[2].op
  /\ ldb # ldb0
  /\ ldb0 # <<>>

\* The keys of the Bucket ns in ascending byte order, each without the
\* namespace.
KeysOfBucket(store, ns) ==
  LET ks == SortedKeys({k \in DOMAIN store : IsPrefix(ns, k)})
  IN [i \in 1..Len(ks) |-> SubSeq(ks[i], Len(ns) + 1, Len(ks[i]))]

\* C16: ForEach passes the keys of the Bucket to fn in ascending byte
\* order, each once and without the namespace. It stops at the first visit
\* that returns an error and returns the error; when no visit fails every
\* key is visited and nil is returned.
C16_ForEachInOrder ==
  /\ bpc = "foreach" =>
       /\ ~bret.err
       /\ Len(bvis) <= Len(KeysOfBucket(ldb, bns))
       /\ bvis = SubSeq(KeysOfBucket(ldb, bns), 1, Len(bvis))
  /\ (bpc = "ret" /\ bret.op = "foreach") =>
       /\ Len(bvis) <= Len(KeysOfBucket(ldb, bns))
       /\ bvis = SubSeq(KeysOfBucket(ldb, bns), 1, Len(bvis))
       /\ \A i \in 1..Len(bvis) : \A j \in 1..Len(bvis) :
            i < j => BytesLess(bns \o bvis[i], bns \o bvis[j])
       /\ bret.err => Len(bvis) >= 1
       /\ ~bret.err => Len(bvis) = Len(KeysOfBucket(ldb, bns))

\* A ForEach on a Bucket with a name and two keys stopped at the first,
\* whose visit failed.
C16_Witness ==
  /\ bpc = "ret"
  /\ bret.op = "foreach"
  /\ bret.err
  /\ bns # <<>>
  /\ Len(bvis) = 1
  /\ Len(KeysOfBucket(ldb, bns)) = 2

\* C18: a Clear on the Bucket of a namespace leaves every key outside the
\* namespace in the store, with its value.
C18_ClearLeavesOthers ==
  (bpc = "ret" /\ bret.op = "clear") =>
    \A k \in DOMAIN ldb0 :
      ~IsPrefix(bns, k) => (k \in DOMAIN ldb /\ ldb[k] = ldb0[k])

\* C20: the composition of keys is free of races. Every call of a caller
\* operates on the key namespace||k of its own k, whatever the other
\* callers do and whatever the capacity of the ns slice, and the bytes of
\* the namespace are never changed.
C20_KeyCompositionRaceFree ==
  /\ \A g \in Callers :
       kpc[g] \in {"staged", "done"} => kused[g] = RaceNs \o kop[g].key
  /\ kpc # [g \in Callers |-> "off"] => SubSeq(nsarr, 1, Len(RaceNs)) = RaceNs

====
